---- MODULE Spec2Model ----
(***************************************************************************)
(* Automount: the process lifecycle supervisor of src/automount.py.        *)
(*                                                                         *)
(* One HDD object per configured drive owns at most one rclone subprocess  *)
(* (self.process), guarded by self._lock.  The model follows each method   *)
(* statement by statement wherever another thread can observe the          *)
(* difference: every read of self.process is a step of its own.            *)
(*                                                                         *)
(* Two specifications share the state and the method steps:                *)
(*   Spec     any thread may call any public operation of any unit;        *)
(*            the relay threads are started but take no step there: they   *)
(*            write nothing that a method reads;                           *)
(*   AppSpec  the program main(): the tray run loop invokes the menu       *)
(*            handlers on the main thread, and leaves through the Exit     *)
(*            handler or through an error, then the finally clause; the    *)
(*            relay threads run beside it.                                 *)
(***************************************************************************)
EXTENDS Naturals, FiniteSets

\* ---------------------------------------------------------------- bounds
\* Popen succeeds at most MaxSpawn times in a run; after that it only fails.
MaxSpawn == 2

\* all_hdds, in configuration order: two configured drives
Units == {1, 2}
\* the threads that call into the units
Threads == {1, 2}
\* subprocesses, numbered in the order they were spawned
Pids == 1..MaxSpawn

\* ------------------------------------------------------------- constants
\* the value of self.process before the first mount and after an unmount;
\* also the holder of a free lock
None == 0
\* the thread that runs main()
MainThread == 1

UnitOps == {"mount", "unmount", "remount", "is_mounted", "current_label"}
BulkOps == {"mount_all", "unmount_all"}
SweepOps == {"mount_all", "unmount_all", "exit", "finally"}

VARIABLES
    process,   \* [Units -> Pids \cup {None}]: self.process, the handle
    lock,      \* [Units -> Threads \cup {None}]: the holder of self._lock
    nspawn,    \* 0..MaxSpawn: subprocesses spawned so far; the next is nspawn + 1
    spawner,   \* [Pids -> Units \cup {None}]: the unit whose mount() spawned it
    alive,     \* SUBSET Pids: spawned subprocesses that have not exited
    signals,   \* [Pids -> Nat]: CTRL_BREAK_EVENTs sent to each subprocess
    rpc,       \* [Pids -> ...]: position of the relay thread started with
               \*   that subprocess (log_to_stdout of its spawner)
    rtarget,   \* [Pids -> Pids \cup {None}]: the subprocess whose stdout
               \*   that relay is reading
    top,       \* [Threads -> ...]: the operation the thread was asked for
    fn,        \* [Threads -> ...]: the HDD method it is executing
    unit,      \* [Threads -> Units]: the unit (self) of that method
    pc,        \* [Threads -> ...]: its position in the method
    im,        \* [Threads -> BOOLEAN]: the value is_mounted() returned to it
    exc,       \* [Threads -> ...]: the exception propagating, if any
    entry,     \* [Threads -> Pids \cup {None}]: the subprocess of the unit
               \*   that was live when the operation was called (history)
    app        \* the position of main(): "off" when the model has no main

vars == <<process, lock, nspawn, spawner, alive, signals, rpc, rtarget,
          top, fn, unit, pc, im, exc, entry, app>>

unitVars == <<process, lock, nspawn, spawner, alive, signals, rpc, rtarget>>
relayVars == <<rpc, rtarget>>

\* the values the state takes
TypeOK ==
    /\ process \in [Units -> Pids \cup {None}]
    /\ lock \in [Units -> Threads \cup {None}]
    /\ nspawn \in 0..MaxSpawn
    /\ spawner \in [Pids -> Units \cup {None}]
    /\ alive \subseteq 1..nspawn
    /\ signals \in [Pids -> 0..1]
    /\ rpc \in [Pids -> {"unstarted", "while", "read", "readline", "done", "raised"}]
    /\ rtarget \in [Pids -> Pids \cup {None}]
    /\ top \in [Threads -> UnitOps \cup SweepOps \cup {"none"}]
    /\ fn \in [Threads -> {"none", "mount", "unmount", "is_mounted"}]
    /\ unit \in [Threads -> Units]
    /\ pc \in [Threads -> {"idle", "lock", "im1", "im2", "body", "wait",
                            "unlock", "ret", "raised"}]
    /\ im \in [Threads -> BOOLEAN]
    /\ exc \in [Threads -> {"none", "AttributeError", "OSError"}]
    /\ entry \in [Threads -> Pids \cup {None}]
    /\ app \in {"off", "run", "stopped", "finally", "exited"}

\* ------------------------------------------------------------ HDD.__init__
HDDInit ==
    /\ process = [u \in Units |-> None]
    /\ lock = [u \in Units |-> None]
    /\ nspawn = 0
    /\ spawner = [p \in Pids |-> None]
    /\ alive = {}
    /\ signals = [p \in Pids |-> 0]
    /\ rpc = [p \in Pids |-> "unstarted"]
    /\ rtarget = [p \in Pids |-> None]

ThreadsInit ==
    /\ top = [t \in Threads |-> "none"]
    /\ fn = [t \in Threads |-> "none"]
    /\ unit = [t \in Threads |-> 1]
    /\ pc = [t \in Threads |-> "idle"]
    /\ im = [t \in Threads |-> FALSE]
    /\ exc = [t \in Threads |-> "none"]
    /\ entry = [t \in Threads |-> None]

Init == HDDInit /\ ThreadsInit /\ app = "off"

\* ------------------------------------------------------------ pure helpers
\* subprocess.Popen.poll() is None: the subprocess has not exited
PollIsNone(p) == p \in alive

\* is_mounted() evaluated in one piece, as it is while the lock is held
IsMountedNow(u) == process[u] # None /\ PollIsNone(process[u])

\* the subprocesses a unit has spawned
SpawnedBy(u) == {p \in Pids : spawner[p] = u}

\* mount: `if not self.is_mounted():`
MountGuardAlways(t) == TRUE
MountGuard(t) == ~im[t]

\* unmount: `if self.is_mounted():`
UnmountGuardAlways(t) == TRUE
UnmountGuard(t) == im[t]

\* unmount: `self.process.wait()` returns when the subprocess has exited
WaitReturnsAtOnce(p) == TRUE
WaitReturns(p) == ~PollIsNone(p)

\* unmount: `self.process = None`
ClearedNot(u) == process
Cleared(u) == [process EXCEPT ![u] = None]

\* mount_all, unmount_all: `for hdd in all_hdds` has a next element
HasNextUnitNever(t) == FALSE
HasNextUnit(t) == unit[t] + 1 \in Units

\* the first method a top-level operation enters
FirstFn(op) ==
    CASE op \in {"mount", "mount_all"} -> "mount"
      [] op \in {"unmount", "unmount_all", "remount", "exit", "finally"} -> "unmount"
      [] OTHER -> "is_mounted"

\* mount() and unmount() begin at `with self._lock`, is_mounted() has no lock
FirstPc(op) == IF FirstFn(op) = "is_mounted" THEN "im1" ELSE "lock"

\* leaving a `with self._lock` block, normally or by an exception
ReleasedNot(t, u) == lock
Released(t, u) == IF lock[u] = t THEN [lock EXCEPT ![u] = None] ELSE lock

\* current_label: one of two strings, chosen by is_mounted()
LabelOf(mounted) == IF mounted THEN "check_mark volume_name" ELSE "no_entry volume_name"

\* what the call that thread t is returning from hands to its caller
ReturnValue(t) ==
    CASE top[t] = "is_mounted" -> IF im[t] THEN "True" ELSE "False"
      [] top[t] = "current_label" -> LabelOf(im[t])
      [] OTHER -> "None"

\* the frame of a thread that is in no call
Idle(t) ==
    /\ top' = [top EXCEPT ![t] = "none"]
    /\ fn' = [fn EXCEPT ![t] = "none"]
    /\ unit' = [unit EXCEPT ![t] = 1]
    /\ pc' = [pc EXCEPT ![t] = "idle"]
    /\ im' = [im EXCEPT ![t] = FALSE]
    /\ exc' = [exc EXCEPT ![t] = "none"]
    /\ entry' = [entry EXCEPT ![t] = None]

\* ------------------------------------------------------------ method steps
\* a thread enters operation op; the bulk operations start at the first unit
Call(t, op, u) ==
    /\ pc[t] = "idle"
    /\ top' = [top EXCEPT ![t] = op]
    /\ fn' = [fn EXCEPT ![t] = FirstFn(op)]
    /\ unit' = [unit EXCEPT ![t] = IF op \in SweepOps THEN 1 ELSE u]
    /\ pc' = [pc EXCEPT ![t] = FirstPc(op)]
    /\ entry' = [entry EXCEPT ![t] =
                    IF op = "remount" /\ PollIsNone(process[u])
                    THEN process[u] ELSE None]
    /\ UNCHANGED <<im, exc>>

\* `with self._lock:` blocks until the lock is free
AcquireGlobal(t) ==
    /\ pc[t] = "lock"
    /\ \A u \in Units : lock[u] = None
    /\ lock' = [lock EXCEPT ![unit[t]] = t]
    /\ pc' = [pc EXCEPT ![t] = "im1"]
    /\ UNCHANGED <<process, nspawn, spawner, alive, signals, relayVars,
                   top, fn, unit, im, exc, entry, app>>

AcquireUnguarded(t) ==
    /\ pc[t] = "lock"
    /\ lock' = [lock EXCEPT ![unit[t]] = t]
    /\ pc' = [pc EXCEPT ![t] = "im1"]
    /\ UNCHANGED <<process, nspawn, spawner, alive, signals, relayVars,
                   top, fn, unit, im, exc, entry, app>>

Acquire(t) ==
    /\ pc[t] = "lock"
    /\ lock[unit[t]] = None
    /\ lock' = [lock EXCEPT ![unit[t]] = t]
    /\ pc' = [pc EXCEPT ![t] = "im1"]
    /\ UNCHANGED <<process, nspawn, spawner, alive, signals, relayVars,
                   top, fn, unit, im, exc, entry, app>>

\* is_mounted, left operand: `self.process is not None`
IsMounted1(t) ==
    /\ pc[t] = "im1"
    /\ IF process[unit[t]] = None
       THEN /\ im' = [im EXCEPT ![t] = FALSE]
            /\ pc' = [pc EXCEPT ![t] = IF fn[t] = "is_mounted" THEN "ret" ELSE "body"]
       ELSE /\ pc' = [pc EXCEPT ![t] = "im2"]
            /\ UNCHANGED im
    /\ UNCHANGED <<unitVars, top, fn, unit, exc, entry, app>>

\* is_mounted, right operand: `self.process.poll() is None` reads self.process
\* again; on None the attribute lookup raises AttributeError
IsMounted2(t) ==
    /\ pc[t] = "im2"
    /\ IF process[unit[t]] = None
       THEN /\ exc' = [exc EXCEPT ![t] = "AttributeError"]
            /\ pc' = [pc EXCEPT ![t] = "raised"]
            /\ lock' = Released(t, unit[t])
            /\ UNCHANGED im
       ELSE /\ im' = [im EXCEPT ![t] = PollIsNone(process[unit[t]])]
            /\ pc' = [pc EXCEPT ![t] = IF fn[t] = "is_mounted" THEN "ret" ELSE "body"]
            /\ UNCHANGED <<exc, lock>>
    /\ UNCHANGED <<process, nspawn, spawner, alive, signals, relayVars,
                   top, fn, unit, entry, app>>

\* mount, the body of `if not self.is_mounted()`: Popen either returns a new
\* subprocess, which is stored and whose relay thread is started, or raises
MountBody(t) ==
    /\ pc[t] = "body" /\ fn[t] = "mount"
    /\ LET u == unit[t] IN
       IF ~MountGuard(t)
       THEN /\ pc' = [pc EXCEPT ![t] = "unlock"]
            /\ UNCHANGED <<unitVars, exc>>
       ELSE \E spawned \in BOOLEAN :
            IF spawned /\ nspawn < MaxSpawn
            THEN LET p == nspawn + 1 IN
                 /\ nspawn' = p
                 /\ spawner' = [spawner EXCEPT ![p] = u]
                 /\ alive' = alive \cup {p}
                 /\ process' = [process EXCEPT ![u] = p]
                 /\ rpc' = [rpc EXCEPT ![p] = "while"]
                 /\ pc' = [pc EXCEPT ![t] = "unlock"]
                 /\ UNCHANGED <<lock, signals, rtarget, exc>>
            ELSE /\ exc' = [exc EXCEPT ![t] = "OSError"]
                 /\ pc' = [pc EXCEPT ![t] = "raised"]
                 /\ lock' = Released(t, u)
                 /\ UNCHANGED <<process, nspawn, spawner, alive, signals, relayVars>>
    /\ UNCHANGED <<top, fn, unit, im, entry, app>>

\* unmount, `if self.is_mounted(): self.process.send_signal(CTRL_BREAK_EVENT)`
UnmountSignal(t) ==
    /\ pc[t] = "body" /\ fn[t] = "unmount"
    /\ LET u == unit[t] IN
       IF UnmountGuard(t)
       THEN /\ signals' = [signals EXCEPT ![process[u]] = @ + 1]
            /\ pc' = [pc EXCEPT ![t] = "wait"]
       ELSE /\ pc' = [pc EXCEPT ![t] = "unlock"]
            /\ UNCHANGED signals
    /\ UNCHANGED <<process, lock, nspawn, spawner, alive, relayVars,
                   top, fn, unit, im, exc, entry, app>>

\* unmount, `self.process.wait()` returns once the subprocess has exited, and
\* then `self.process = None`
UnmountWait(t) ==
    /\ pc[t] = "wait"
    /\ WaitReturns(process[unit[t]])
    /\ process' = Cleared(unit[t])
    /\ pc' = [pc EXCEPT ![t] = "unlock"]
    /\ UNCHANGED <<lock, nspawn, spawner, alive, signals, relayVars,
                   top, fn, unit, im, exc, entry, app>>

\* the end of the `with self._lock` block
Unlock(t) ==
    /\ pc[t] = "unlock"
    /\ lock' = Released(t, unit[t])
    /\ pc' = [pc EXCEPT ![t] = "ret"]
    /\ UNCHANGED <<process, nspawn, spawner, alive, signals, relayVars,
                   top, fn, unit, im, exc, entry, app>>

\* a method returns to its caller: remount goes on to mount, a bulk operation
\* to the next unit of all_hdds, anything else is finished
Return(t) ==
    /\ pc[t] = "ret"
    /\ IF top[t] = "remount" /\ fn[t] = "unmount"
       THEN /\ fn' = [fn EXCEPT ![t] = "mount"]
            /\ pc' = [pc EXCEPT ![t] = "lock"]
            /\ im' = [im EXCEPT ![t] = FALSE]
            /\ UNCHANGED <<top, unit, exc, entry, app>>
       ELSE IF top[t] \in SweepOps /\ HasNextUnit(t)
       THEN /\ unit' = [unit EXCEPT ![t] = @ + 1]
            /\ pc' = [pc EXCEPT ![t] = "lock"]
            /\ im' = [im EXCEPT ![t] = FALSE]
            /\ UNCHANGED <<top, fn, exc, entry, app>>
       ELSE /\ Idle(t)
            /\ app' = CASE top[t] = "exit" -> "stopped"
                        [] top[t] = "finally" -> "exited"
                        [] OTHER -> app
    /\ UNCHANGED unitVars

\* an exception leaves the operation: nothing in HDD, remount, mount_all or
\* unmount_all catches it
Propagate(t) ==
    /\ pc[t] = "raised"
    /\ Idle(t)
    /\ UNCHANGED <<unitVars, app>>

\* ------------------------------------------------------------ environment
\* a subprocess exits, after the signal or on its own
ProcExit(p) ==
    /\ p \in alive
    /\ alive' = alive \ {p}
    /\ UNCHANGED <<process, lock, nspawn, spawner, signals, relayVars,
                   top, fn, unit, pc, im, exc, entry, app>>

\* ------------------------------------------------------------ log_to_stdout
\* The relay thread started with subprocess r runs self.log_to_stdout of the
\* unit that spawned r.
\* `while self.process:`
RelayWhile(r) ==
    /\ rpc[r] = "while"
    /\ rpc' = [rpc EXCEPT ![r] =
                  IF process[spawner[r]] = None THEN "done" ELSE "read"]
    /\ UNCHANGED <<process, lock, nspawn, spawner, alive, signals, rtarget,
                   top, fn, unit, pc, im, exc, entry, app>>

\* `self.process.stdout` reads self.process again
RelayDeref(r) ==
    /\ rpc[r] = "read"
    /\ IF process[spawner[r]] = None
       THEN /\ rpc' = [rpc EXCEPT ![r] = "raised"]
            /\ UNCHANGED rtarget
       ELSE /\ rpc' = [rpc EXCEPT ![r] = "readline"]
            /\ rtarget' = [rtarget EXCEPT ![r] = process[spawner[r]]]
    /\ UNCHANGED <<process, lock, nspawn, spawner, alive, signals,
                   top, fn, unit, pc, im, exc, entry, app>>

\* `.readline()`: a line while the subprocess runs, end-of-input once it exited
RelayReadline(r) ==
    /\ rpc[r] = "readline"
    /\ rpc' = [rpc EXCEPT ![r] =
                  IF PollIsNone(rtarget[r]) THEN "while" ELSE "done"]
    /\ rtarget' = [rtarget EXCEPT ![r] = None]
    /\ UNCHANGED <<process, lock, nspawn, spawner, alive, signals,
                   top, fn, unit, pc, im, exc, entry, app>>

\* ------------------------------------------------------------ main()
\* app.run(): the run loop invokes a menu handler on the main thread
Dispatch ==
    /\ app = "run"
    /\ \E op \in UnitOps \cup BulkOps \cup {"exit"} : \E u \in Units :
          Call(MainThread, op, u)
    /\ UNCHANGED <<unitVars, app>>

\* app.run() returns after icon.stop(), or raises (an error of the loop, or
\* one a handler let through); `except:` logs it.  Either way the finally
\* clause starts unmount_all(all_hdds)
LeaveLoop ==
    /\ \/ app = "stopped" /\ pc[MainThread] = "idle"
       \/ app = "run" /\ pc[MainThread] \in {"idle", "raised"}
    /\ app' = "finally"
    /\ top' = [top EXCEPT ![MainThread] = "finally"]
    /\ fn' = [fn EXCEPT ![MainThread] = "unmount"]
    /\ unit' = [unit EXCEPT ![MainThread] = 1]
    /\ pc' = [pc EXCEPT ![MainThread] = "lock"]
    /\ im' = [im EXCEPT ![MainThread] = FALSE]
    /\ exc' = [exc EXCEPT ![MainThread] = "none"]
    /\ entry' = [entry EXCEPT ![MainThread] = None]
    /\ UNCHANGED unitVars

\* ------------------------------------------------------------ specifications
Invoke ==
    /\ app = "off"
    /\ \E t \in Threads : \E op \in UnitOps : \E u \in Units :
          Call(t, op, u)
    /\ UNCHANGED <<unitVars, app>>

Step ==
    \E t \in Threads :
        \/ Acquire(t)
        \/ IsMounted1(t)
        \/ IsMounted2(t)
        \/ MountBody(t)
        \/ UnmountSignal(t)
        \/ UnmountWait(t)
        \/ Unlock(t)
        \/ Return(t)

Relay ==
    \E r \in Pids :
        \/ RelayWhile(r)
        \/ RelayDeref(r)
        \/ RelayReadline(r)

Next ==
    \/ Invoke
    \/ Step
    \/ \E t \in Threads : Propagate(t)
    \/ \E p \in Pids : ProcExit(p)

Spec == Init /\ [][Next]_vars

\* the operations that take the lock; the two queries write nothing
LockingOps == {"mount", "unmount", "remount"}

InvokeLocking ==
    /\ app = "off"
    /\ \E t \in Threads : \E op \in LockingOps : \E u \in Units :
          Call(t, op, u)
    /\ UNCHANGED <<unitVars, app>>

FairNext ==
    \/ InvokeLocking
    \/ Step
    \/ \E t \in Threads : Propagate(t)
    \/ \E p \in Pids : ProcExit(p)

\* the locking operations with the scheduling the threads rely on: a thread whose wait() can
\* return, or that stands at the end of its `with` block, is eventually run
FairSpec ==
    /\ Init /\ [][FairNext]_vars
    /\ \A t \in Threads : WF_vars(UnmountWait(t)) /\ WF_vars(Unlock(t))

AppInit == HDDInit /\ ThreadsInit /\ app = "run"

AppNext ==
    \/ Dispatch
    \/ LeaveLoop
    \/ Step
    \/ \E p \in Pids : ProcExit(p)
    \/ Relay

AppSpec == AppInit /\ [][AppNext]_vars

\* ------------------------------------------------------------ properties
\* the live subprocesses of a unit
LiveOf(u) == {p \in SpawnedBy(u) : p \in alive}

\* C1: however mount(), unmount() and remount() calls of several threads on a
\* unit interleave, no two subprocesses spawned by that unit are alive at once.
C1_AtMostOneLiveSubprocess ==
    \A u \in Units : Cardinality(LiveOf(u)) <= 1

\* a second subprocess of a unit has just been spawned by a mount() while
\* another thread waits for the lock of the same unit
C1_Witness ==
    \E t1 \in Threads : \E t2 \in Threads \ {t1} :
        /\ unit[t1] = unit[t2]
        /\ fn[t1] = "mount" /\ pc[t1] = "unlock" /\ ~im[t1]
        /\ fn[t2] \in {"mount", "unmount"} /\ pc[t2] = "lock"
        /\ Cardinality(SpawnedBy(unit[t1])) = 2
        /\ Cardinality(LiveOf(unit[t1])) = 1

\* C2: main() leaves the run loop through the Exit handler or an error; the
\* finally clause then runs unmount over every unit, first to last, before the
\* process exits, and at exit no subprocess of any unit is alive.
C2_TeardownBeforeExit ==
    /\ [](app = "exited" => alive = {} /\ \A u \in Units : ~IsMountedNow(u))
    /\ [][/\ (app # "finally" /\ app' = "finally") =>
                /\ top'[MainThread] = "finally" /\ fn'[MainThread] = "unmount"
                /\ \A u \in Units : unit'[MainThread] <= u
          /\ (app = "finally" /\ unit'[MainThread] # unit[MainThread] /\ app' = "finally") =>
                /\ pc[MainThread] = "ret"
                /\ unit'[MainThread] = unit[MainThread] + 1
          /\ (app # "exited" /\ app' = "exited") =>
                /\ top[MainThread] = "finally" /\ pc[MainThread] = "ret"
                /\ \A u \in Units : u <= unit[MainThread]]_vars

\* the process has exited after two units were mounted and both subprocesses
\* were sent the break signal
C2_Witness ==
    /\ app = "exited"
    /\ nspawn = 2 /\ spawner[1] # spawner[2]
    /\ signals[1] = 1 /\ signals[2] = 1

\* C3: a bulk operation whose call on unit k fails still calls every later
\* unit: it never ends before its call on the last unit.
C3_BulkContinuesPastFailure ==
    [][\A t \in Threads :
          (top[t] \in BulkOps /\ top'[t] # top[t]) => \A u \in Units : u <= unit[t]]_vars

\* C4: is_mounted() and current_label() called beside a concurrent unmount()
\* never poll an absent handle, so they never fail.
C4_QueryNeverFails ==
    \A t \in Threads :
        /\ pc[t] = "im2" => process[unit[t]] # None
        /\ exc[t] # "AttributeError"

\* the step in which Popen raises inside mount()
SpawnFails(t) == fn[t] = "mount" /\ pc[t] = "body" /\ pc'[t] = "raised"

\* C5 as stated: when the spawn inside mount() fails, the error reaches the
\* caller, the lock is released, no relay is started, and afterwards the handle
\* is absent and is_mounted() is false.
C5_SpawnFailureLeavesHandleAbsent ==
    [][\A t \in Threads : SpawnFails(t) =>
          /\ exc'[t] = "OSError"
          /\ lock'[unit[t]] = None
          /\ rpc' = rpc /\ nspawn' = nspawn
          /\ process'[unit[t]] = None
          /\ ~IsMountedNow(unit[t])']_vars

\* C5 amended: when the spawn inside mount() fails, the error reaches the
\* caller, the lock is released, no relay is started, the handle is left as it
\* was (absent, or the stale handle of a subprocess that exited on its own) and
\* is_mounted() is false.
C5_SpawnFailureLeavesHandleUnchanged ==
    [][\A t \in Threads : SpawnFails(t) =>
          /\ exc'[t] = "OSError"
          /\ lock'[unit[t]] = None
          /\ rpc' = rpc /\ nspawn' = nspawn
          /\ process'[unit[t]] = process[unit[t]]
          /\ ~IsMountedNow(unit[t])']_vars

\* a mount() has raised on a unit whose previous subprocess exited on its own,
\* while another spawn was still possible
C5_Witness ==
    \E t \in Threads :
        /\ fn[t] = "mount" /\ pc[t] = "raised" /\ exc[t] = "OSError"
        /\ process[unit[t]] # None
        /\ signals[process[unit[t]]] = 0
        /\ nspawn < MaxSpawn

\* C6: a mount() that finds the unit mounted spawns nothing, starts no relay
\* and leaves the handle as it is; its only step goes to the end of the lock
\* block.
C6_MountOnMountedIsNoOp ==
    [][\A t \in Threads :
          (fn[t] = "mount" /\ pc[t] = "body" /\ im[t]) =>
              /\ process'[unit[t]] = process[unit[t]]
              /\ {p \in Pids : spawner'[p] = unit[t]} = SpawnedBy(unit[t])
              /\ {p \in Pids : spawner'[p] = unit[t] /\ rpc'[p] # "unstarted"}
                    = {p \in SpawnedBy(unit[t]) : rpc[p] # "unstarted"}
              /\ pc'[t] \in {"body", "unlock"}]_vars

\* a second mount() in a row is leaving with the one subprocess still alive
C6_Witness ==
    \E t \in Threads :
        /\ top[t] = "mount" /\ pc[t] = "unlock" /\ im[t]
        /\ LiveOf(unit[t]) = {process[unit[t]]}
        /\ SpawnedBy(unit[t]) = {process[unit[t]]}

\* C7: an unmount() that finds the unit not mounted raises nothing, sends no
\* signal, does not wait, changes nothing of the unit and releases the lock.
C7_UnmountOnUnmountedIsNoOp ==
    [][\A t \in Threads :
          (fn[t] = "unmount" /\ ~im[t] /\ pc[t] \in {"body", "unlock"} /\ pc'[t] # pc[t]) =>
              /\ signals' = signals /\ process' = process /\ alive' = alive
              /\ nspawn' = nspawn
              /\ exc'[t] = "none"
              /\ pc'[t] = (IF pc[t] = "body" THEN "unlock" ELSE "ret")
              /\ lock'[unit[t]] = (IF pc[t] = "body" THEN t ELSE None)]_vars

\* a second unmount() in a row has returned from a unit that was mounted and
\* unmounted before
C7_Witness ==
    \E t \in Threads :
        /\ top[t] = "unmount" /\ pc[t] = "ret" /\ ~im[t]
        /\ process[unit[t]] = None
        /\ \E p \in SpawnedBy(unit[t]) : signals[p] = 1

\* C8: the value unmount() returns tells whether it stopped a live subprocess
\* ("unmounted") or found the unit not mounted ("not mounted").
C8_UnmountResultTellsTheCase ==
    \A t \in Threads :
        (fn[t] = "unmount" /\ pc[t] = "ret") =>
            ReturnValue(t) = (IF im[t] THEN "unmounted" ELSE "not mounted")

\* C9: a unit that has spawned nothing has no handle; when an unmount() that
\* stopped a subprocess is about to release the lock the handle is absent and
\* is_mounted() false; and an absent handle becomes present only by the spawn
\* step of a mount() on that unit.
C9_UnmountedUntilNextMount ==
    /\ [](\A u \in Units : SpawnedBy(u) = {} => process[u] = None /\ ~IsMountedNow(u))
    /\ [](\A t \in Threads :
            (fn[t] = "unmount" /\ pc[t] = "unlock" /\ im[t]) =>
                /\ process[unit[t]] = None
                /\ ~IsMountedNow(unit[t])
                /\ lock[unit[t]] = t)
    /\ [][\A u \in Units :
            (process[u] = None /\ process'[u] # None) =>
                \E t \in Threads :
                    /\ fn[t] = "mount" /\ unit[t] = u
                    /\ pc[t] = "body" /\ pc'[t] = "unlock"]_vars

\* an unmount() that signalled the subprocess and waited for its exit is about
\* to release the lock
C9_Witness ==
    \E t \in Threads :
        /\ fn[t] = "unmount" /\ pc[t] = "unlock" /\ im[t]
        /\ process[unit[t]] = None
        /\ \E p \in SpawnedBy(unit[t]) : signals[p] = 1 /\ p \notin alive

\* remount() of the main thread has returned from a unit that was mounted when
\* it was called
RemountReturned ==
    /\ top[MainThread] = "remount" /\ fn[MainThread] = "mount"
    /\ pc[MainThread] = "ret"
    /\ entry[MainThread] # None

\* C10 as stated: remount() on a mounted unit, with no other thread on the unit
\* and a successful spawn, returns with is_mounted() true and the handle on a
\* new subprocess, the old one having exited.
C10_RemountLeavesMounted ==
    RemountReturned =>
        LET u == unit[MainThread] IN
        /\ IsMountedNow(u)
        /\ process[u] # None /\ process[u] # entry[MainThread]
        /\ entry[MainThread] \notin alive

\* C10 amended: remount() on a mounted unit, with no other thread on the unit
\* and a successful spawn, returns with the handle on a subprocess spawned by
\* this unit during the call, the old one having exited; is_mounted() is true
\* exactly as long as the new subprocess has not exited in its turn.
C10_RemountReplacesSubprocess ==
    RemountReturned =>
        LET u == unit[MainThread] IN
        /\ process[u] # None /\ process[u] # entry[MainThread]
        /\ process[u] > entry[MainThread] /\ spawner[process[u]] = u
        /\ entry[MainThread] \notin alive
        /\ IsMountedNow(u) = (LiveOf(u) = {process[u]})

\* remount() has returned and the new subprocess is running
C10_Witness ==
    /\ RemountReturned
    /\ IsMountedNow(unit[MainThread])
    /\ signals[entry[MainThread]] = 1

InRemountWindow(t) ==
    /\ top[t] = "remount"
    /\ \/ fn[t] = "unmount" /\ pc[t] = "ret"
       \/ fn[t] = "mount" /\ pc[t] = "lock"

\* C12: remount() is two critical sections. Its unmount() ends by freeing the
\* lock with the unit unmounted; until its mount() takes the lock again it holds
\* no lock of the unit; and when its mount() finds the unit mounted, the
\* subprocess is one another thread's mount() spawned in between, and that
\* mount() of remount is a no-op.
C12_RemountIsTwoCriticalSections ==
    /\ [](\A t \in Threads : InRemountWindow(t) => lock[unit[t]] # t)
    /\ [](\A t \in Threads :
            (top[t] = "remount" /\ fn[t] = "mount" /\ pc[t] \in {"body", "unlock"} /\ im[t]) =>
                /\ process[unit[t]] # None
                /\ process[unit[t]] # entry[t]
                /\ entry[t] \notin alive)
    /\ [][\A t \in Threads :
            (top[t] = "remount" /\ fn[t] = "unmount" /\ pc[t] = "unlock" /\ pc'[t] = "ret") =>
                /\ lock'[unit[t]] = None
                /\ ~IsMountedNow(unit[t])'
                /\ InRemountWindow(t)']_vars

\* remount() on a mounted unit: after its unmount() another thread's mount()
\* took the lock and spawned, and the mount() of remount found the unit mounted
C12_Witness ==
    \E t \in Threads :
        /\ top[t] = "remount" /\ fn[t] = "mount" /\ pc[t] = "unlock" /\ im[t]
        /\ entry[t] # None
        /\ process[unit[t]] \notin {None, entry[t]}
        /\ signals[entry[t]] = 1

\* C13: a relay reads only the stdout of the subprocess it was started for, so
\* no two relays read the same stream at once.
C13_RelayReadsOwnSubprocess ==
    /\ \A r \in Pids : rtarget[r] \in {None, r}
    /\ \A r1 \in Pids : \A r2 \in Pids \ {r1} :
          rtarget[r1] # None => rtarget[r1] # rtarget[r2]

\* C14: a relay ends without raising an error, whatever unmount() does to the
\* handle meanwhile.
C14_RelayNeverRaises ==
    \A r \in Pids : rpc[r] # "raised"

\* the thread is between `with self._lock:` and the end of that block
InCS(t) ==
    /\ fn[t] \in {"mount", "unmount"}
    /\ pc[t] \in {"im1", "im2", "body", "wait", "unlock"}

\* C15: at most one thread at a time is inside the critical section of
\* mount() or unmount() of a unit; the thread inside holds the unit's lock,
\* also while unmount() waits for the exit, so that a contending call stays
\* at `with self._lock` until the handle is cleared and the block is left;
\* and every write of the handle is a step of the thread that holds the lock.
C15_LockOrdersOperations ==
    /\ [](\A t \in Threads : InCS(t) => lock[unit[t]] = t)
    /\ [](\A t1 \in Threads : \A t2 \in Threads \ {t1} :
            InCS(t1) /\ InCS(t2) => unit[t1] # unit[t2])
    /\ [](\A t \in Threads :
            fn[t] = "unmount" /\ pc[t] = "unlock" /\ im[t]
            => process[unit[t]] = None)
    /\ [][\A t2 \in Threads :
            (pc[t2] = "lock" /\ pc'[t2] # "lock")
            => /\ lock[unit[t2]] = None
               /\ \A t \in Threads \ {t2} : ~(InCS(t) /\ unit[t] = unit[t2])]_vars
    /\ [][\A u \in Units :
            process'[u] # process[u] =>
                \E t \in Threads :
                    /\ lock[u] = t /\ lock'[u] = t
                    /\ InCS(t) /\ unit[t] = u
                    /\ pc'[t] # pc[t]]_vars

\* a thread waits at the lock of a unit whose unmount() is waiting for the
\* exit of a subprocess that is still running
C15_Witness ==
    \E t1 \in Threads : \E t2 \in Threads \ {t1} :
        /\ fn[t1] = "unmount" /\ pc[t1] = "wait"
        /\ process[unit[t1]] \in alive
        /\ pc[t2] = "lock" /\ unit[t2] = unit[t1]
        /\ fn[t2] \in {"mount", "unmount"}

\* thread t is in the unmount() of a unit it found mounted, blocked in
\* self.process.wait()
Waiting(t) == fn[t] = "unmount" /\ pc[t] = "wait"

\* C16: unmount() on a mounted unit sends CTRL_BREAK_EVENT exactly once and
\* never kills: a subprocess leaves `alive` only by its own exit.  It waits
\* with no timeout: while the subprocess has not exited the thread stays in
\* wait(), the handle stays, the lock stays held and every thread at that
\* unit's `with self._lock` stays there; once the subprocess has exited,
\* unmount() clears the handle, releases the lock and returns.
C16_UnmountWaitsWithoutTimeout ==
    /\ [](\A t \in Threads : Waiting(t) =>
            /\ process[unit[t]] # None
            /\ signals[process[unit[t]]] = 1
            /\ lock[unit[t]] = t)
    /\ [][\A p \in Pids :
            signals'[p] # signals[p] =>
                /\ signals'[p] = signals[p] + 1
                /\ \E t \in Threads :
                      /\ fn[t] = "unmount" /\ pc[t] = "body" /\ im[t]
                      /\ process[unit[t]] = p
                      /\ Waiting(t)']_vars
    /\ [][\A p \in alive : p \notin alive' => pc' = pc]_vars
    /\ [][\A t \in Threads :
            (Waiting(t) /\ process[unit[t]] \in alive') =>
                /\ Waiting(t)'
                /\ process'[unit[t]] = process[unit[t]]
                /\ lock'[unit[t]] = t
                /\ \A t2 \in Threads :
                      (pc[t2] = "lock" /\ unit[t2] = unit[t])
                      => (pc'[t2] = "lock" /\ unit'[t2] = unit[t])]_vars
    /\ \A t \in Threads : \A u \in Units :
          (Waiting(t) /\ unit[t] = u /\ process[u] \notin alive)
          ~> (fn[t] = "unmount" /\ unit[t] = u /\ pc[t] = "ret"
              /\ process[u] = None /\ lock[u] # t)

\* an unmount() that signalled a running subprocess has returned
C16_Witness ==
    \E t \in Threads : \E p \in Pids :
        /\ fn[t] = "unmount" /\ pc[t] = "ret" /\ im[t]
        /\ spawner[p] = unit[t] /\ signals[p] = 1 /\ p \notin alive
        /\ process[unit[t]] = None /\ lock[unit[t]] = None

\* the next statement of thread t
StepOf(t) ==
    \/ Acquire(t) \/ IsMounted1(t) \/ IsMounted2(t) \/ MountBody(t)
    \/ UnmountSignal(t) \/ UnmountWait(t) \/ Unlock(t) \/ Return(t)
    \/ Propagate(t)

\* thread t cannot go on: it stands at a held lock of its own unit, or in
\* the wait() for its own unit's running subprocess
BlockedOnOwnUnit(t) ==
    \/ pc[t] = "lock" /\ lock[unit[t]] # None
    \/ pc[t] = "wait" /\ process[unit[t]] \in alive

\* C17: units are independent.  A step of a thread inside mount(),
\* unmount() or remount() of unit A leaves the handle and the lock of every
\* other unit B as they were and sends nothing to B's subprocesses; and a
\* thread in an operation can take its next step unless it is blocked on
\* its own unit (that unit's lock held, or that unit's subprocess still
\* running under wait()), whatever the state of the other units is: an
\* unmount() of A blocked in wait() stops no operation on B.
C17_UnitsAreIndependent ==
    /\ [][\A t \in Threads :
            (pc'[t] # pc[t] /\ top'[t] \in LockingOps \cup {"none"}
             /\ (top[t] \in LockingOps \/ top'[t] \in LockingOps)) =>
                \A b \in Units \ {IF pc[t] = "idle" THEN unit'[t] ELSE unit[t]} :
                    /\ process'[b] = process[b]
                    /\ lock'[b] = lock[b]
                    /\ \A p \in Pids :
                          (spawner[p] = b \/ spawner'[p] = b) =>
                              /\ signals'[p] = signals[p]
                              /\ spawner'[p] = spawner[p]
                              /\ (p \in alive' <=> p \in alive)]_vars
    /\ [](\A t \in Threads :
            pc[t] # "idle" => (ENABLED StepOf(t) <=> ~BlockedOnOwnUnit(t)))

\* an unmount() of one unit is blocked in wait() while another thread is
\* inside a mount() of another unit that it has just mounted
C17_Witness ==
    \E t1 \in Threads : \E t2 \in Threads \ {t1} :
        /\ Waiting(t1) /\ process[unit[t1]] \in alive
        /\ unit[t2] # unit[t1]
        /\ fn[t2] = "mount" /\ pc[t2] = "unlock" /\ ~im[t2]
        /\ lock[unit[t2]] = t2
        /\ process[unit[t2]] > process[unit[t1]]

\* a step of a mount() of unit u that stores a new subprocess
MountStores(u) ==
    \E t \in Threads :
        /\ fn[t] = "mount" /\ unit[t] = u /\ pc[t] = "body"
        /\ pc'[t] = "unlock"
        /\ process'[u] = nspawn' /\ nspawn' = nspawn + 1

\* a step of an unmount() of unit u that clears the handle
UnmountClears(u) ==
    \E t \in Threads :
        /\ Waiting(t) /\ unit[t] = u
        /\ pc'[t] = "unlock"
        /\ process'[u] = None

\* C18, as stated: a unit's handle is absent or refers to a subprocess that
\* the unit's own mount() spawned and that has not yet exited; and the
\* handle changes only from absent to present by a mount() of the unit and
\* from present to absent by an unmount() of the unit.
C18_HandleIsAbsentOrRunning ==
    /\ [](\A u \in Units :
            process[u] = None
            \/ (spawner[process[u]] = u /\ process[u] \in alive))
    /\ [][\A u \in Units :
            process'[u] # process[u] =>
                \/ process[u] = None /\ MountStores(u)
                \/ process[u] # None /\ UnmountClears(u)]_vars

\* C18, amended: a unit's handle is absent or refers to a subprocess that
\* the unit's own mount() spawned and that no unmount() of the unit has
\* waited for yet; that subprocess may have exited on its own.  The handle
\* changes in three ways only: from absent to present and from a handle of
\* an exited subprocess to a new one, both by the spawn of a mount() of the
\* unit, and from present to absent by an unmount() of the unit once the
\* subprocess has exited.
C18_HandleIsAbsentOrOwnUnreaped ==
    /\ [](\A u \in Units :
            process[u] = None
            \/ (process[u] <= nspawn /\ spawner[process[u]] = u))
    /\ [][\A u \in Units :
            process'[u] # process[u] =>
                \/ /\ MountStores(u)
                   /\ ~IsMountedNow(u)
                   /\ process'[u] \in alive' /\ spawner'[process'[u]] = u
                \/ /\ UnmountClears(u)
                   /\ process[u] # None /\ process[u] \notin alive
                   /\ signals[process[u]] = 1]_vars

\* a mount() has replaced the handle of a subprocess that exited on its own
C18_Witness ==
    \E u \in Units : \E p \in Pids :
        /\ process[u] # None /\ process[u] # p
        /\ spawner[p] = u /\ spawner[process[u]] = u
        /\ signals[p] = 0 /\ p \notin alive

\* the sweeps that call unmount() on every unit
UnmountSweeps == {"unmount_all", "exit", "finally"}

\* C19: mount_all and unmount_all go through all_hdds in configuration
\* order, one unit at a time: a sweep starts at the first unit, calls the
\* same method on each, and moves on by one unit, and only when the call on
\* the current unit has returned; so in unmount_all every subprocess of
\* the units before the current one has exited before the current unit is
\* signalled.
C19_SweepsInConfigurationOrder ==
    /\ [](\A t \in Threads :
            /\ top[t] = "mount_all" => fn[t] = "mount"
            /\ top[t] \in UnmountSweeps =>
                  /\ fn[t] = "unmount"
                  /\ \A j \in Units : j < unit[t] => LiveOf(j) = {})
    /\ [][\A t \in Threads :
            /\ (top'[t] \in SweepOps /\ top'[t] # top[t]) =>
                  (unit'[t] = 1 /\ pc'[t] = "lock")
            /\ (top[t] \in SweepOps /\ top'[t] = top[t]
                 /\ unit'[t] # unit[t]) =>
                  /\ unit'[t] = unit[t] + 1
                  /\ pc[t] = "ret" /\ pc'[t] = "lock"
                  /\ lock[unit[t]] # t
            /\ (top[t] \in UnmountSweeps /\ top'[t] # top[t]) =>
                  /\ pc[t] = "ret"
                  /\ \A j \in Units : j <= unit[t]]_vars

\* unmount_all is waiting for the second unit's subprocess after the first
\* unit's subprocess, which it signalled, has exited
C19_Witness ==
    \E t \in Threads : \E p \in Pids :
        /\ top[t] = "unmount_all" /\ unit[t] = 2 /\ Waiting(t)
        /\ spawner[p] = 1 /\ signals[p] = 1 /\ p \notin alive
        /\ process[1] = None
        /\ signals[process[2]] = 1

\* unit u holds the handle of a subprocess that has exited
Stale(u) == process[u] # None /\ process[u] \notin alive

\* C20: when a unit's subprocess exits on its own the handle stays and
\* is_mounted() is false from then on.  A mount() that finds the unit so
\* spawns a new subprocess, stores it in place of the stale handle and
\* starts its relay; an unmount() that finds the unit so sends no signal,
\* does not wait and leaves the stale handle where it is.
C20_StaleHandleAfterOwnExit ==
    /\ [][\A p \in alive : p \notin alive' =>
            /\ process' = process
            /\ \A u \in Units : process[u] = p => Stale(u)' /\ ~IsMountedNow(u)']_vars
    /\ [][\A t \in Threads :
            (pc[t] = "im2" /\ Stale(unit[t]) /\ pc'[t] # pc[t]) =>
                /\ ~im'[t]
                /\ pc'[t] = IF fn[t] = "is_mounted" THEN "ret" ELSE "body"]_vars
    /\ [][\A t \in Threads :
            (fn[t] = "mount" /\ pc[t] = "body" /\ ~im[t]
             /\ Stale(unit[t]) /\ pc'[t] = "unlock") =>
                /\ process'[unit[t]] = nspawn + 1 /\ nspawn' = nspawn + 1
                /\ process'[unit[t]] # process[unit[t]]
                /\ process'[unit[t]] \in alive'
                /\ rpc[nspawn + 1] = "unstarted" /\ rpc'[nspawn + 1] = "while"]_vars
    /\ [][\A t \in Threads :
            (fn[t] = "unmount" /\ pc[t] = "body" /\ ~im[t]
             /\ pc'[t] # pc[t]) =>
                /\ pc'[t] = "unlock"
                /\ signals' = signals
                /\ process' = process]_vars
    /\ [](\A t \in Threads :
            (fn[t] = "unmount" /\ pc[t] \in {"unlock", "ret"} /\ ~im[t]
             /\ lock[unit[t]] = t) =>
                (process[unit[t]] # None => Stale(unit[t])
                                            /\ signals[process[unit[t]]] = 0))

\* an unmount() has gone through a unit whose subprocess had exited on
\* its own, and the handle is still there
C20_Witness ==
    \E t \in Threads :
        /\ fn[t] = "unmount" /\ pc[t] = "ret" /\ ~im[t]
        /\ Stale(unit[t]) /\ signals[process[unit[t]]] = 0
====
